---- MODULE Spec2Model ----
(***************************************************************************)
(* Bulk screenshot service (TaskService, S3 revision): the capture loop    *)
(* createScreenshots with its retry queue and circuit breaker, the job     *)
(* boundary processFile, and the archive pipeline createZipFromS3 /        *)
(* uploadBufferToS3.                                                       *)
(*                                                                         *)
(* The breaker is a field of the long-lived service object, so it is one   *)
(* value shared by every job; everything else is local to a job and is a   *)
(* function of the job id.  Optional record fields (null in the code) are  *)
(* sequences of length 0 or 1.  Time is the value of Date.now() in ms.     *)
(***************************************************************************)
EXTENDS Integers, Sequences, FiniteSets, TLC

\* ---------------------------------------------------------------- bounds
MaxUrls == 4      \* cell texts submitted, over all runs
ReliableUrls == 5 \* the same, when storage, job records and launches never fail
MaxJobs == 2      \* job slots: job records kept, processFile invocations that may overlap
MaxTicks == 3     \* clock ticks
MaxFaults == 1    \* faults of object storage, the job-record store and browser launches
ConcurrentUrls == 3 \* cell texts submitted, over all overlapping runs
FsUrls == 2       \* cell texts submitted, over all runs of the filesystem revision
BriefUrls == 2    \* cell texts submitted, over all runs, for short runs
CarryUrls == 3    \* cell texts submitted, over a run and the run after it
MaxPolls == 2     \* poll requests the page sends for one task
DownloadUrls == 2 \* cell texts submitted, over all runs, when download links are requested
SharedUrls == 2   \* cell texts submitted, over all runs, next to other invocations
MaxFailureCount == 7 \* failure count up to which other invocations go on recording failures

\* ------------------------------------------------------ program constants
MAX_ATTEMPTS == 3
INITIAL_TIMEOUT == 30000
TIMEOUT_MULTIPLIER == 2
resetTimeout == 60000
failureThreshold == 5
BASE_DELAY == 2000
JITTER == 3000

Jobs == 1..MaxJobs
TickMs == resetTimeout \div 2

VARIABLES
    cb,              \* this.circuitBreakerState: [isOpen, lastFailure, failureCount]
    now,             \* Date.now()
    pc,              \* per job: position in processFile / createScreenshots
    task,            \* per job: the job record (Task row)
    urls,            \* per job: the validated URL list
    queue,           \* per job: createScreenshots' queue
    item,            \* per job: the dequeued item, <<>> when none
    page,            \* per job: "null" | "open" | "closed"
    screenshotKeys,  \* per job: createScreenshots' screenshotKeys
    browser,         \* per job: "undefined" | "live" | "closed"
    sessions,        \* per job: browser processes launched and not closed, and their pages,
                     \* [live, peak, recycled, pages]
    archive,         \* per job: entries appended to the zip being built
    uploaded,        \* per job: archives put to object storage, with their keys
    signed,          \* outcome of the last getFileUrl call, <<>> when none
    \* history variables (not read by the program)
    streak,          \* consecutive failed attempts since the last successful one
    tripTime,        \* <<Date.now()>> of the failure that last opened the breaker
    failures,        \* per job, per item: number of failed attempts
    succeeded,       \* per job: items whose attempt ran to the end of the try block
    faults,          \* per job: how often each kind of fault was seen in the run
    abortedAt,       \* per job: <<Date.now()>> of the breaker abort, once thrown
    keyItem,         \* per job: item id behind each entry of screenshotKeys
    lastError,       \* per job: <<message>> of the error the catch block has just handled
    writes,          \* per job: the progress and terminal status writes made so far
    waited,          \* per job: <<ms>> of the politeness delay just waited, <<>> when none
    \* the environment's budgets
    quota,           \* cell texts that may still be submitted
    faultsLeft,      \* storage / job-record / launch faults that may still happen
    \* the polling front end (App.vue), one page
    mounted,         \* mounted() has run fetchTasks
    tasks,           \* this.tasks, per task id: <<status>> of its entry, <<>> when it has none
    pollingIntervals, \* this.pollingIntervals, per task id: <<timer id>>, <<>> when deleted
    timers,          \* per task id: the interval timers set for it and not cleared
    polls,           \* poll requests sent and not yet handled by the page:
                     \* [task, n, data], data <<>> until the server has answered
    sent,            \* per task id: poll requests sent so far
    cleared,         \* per task id: a timer of the task has been cleared (history)
    posted           \* per task id: the page's upload request for it has returned

svcVars == <<cb, now, streak, tripTime>>
jobVars == <<pc, task, urls, queue, item, page, screenshotKeys, browser, sessions, archive, uploaded>>
histVars == <<failures, succeeded, faults, abortedAt, keyItem, lastError, writes, waited>>
envVars == <<quota, faultsLeft>>
uiVars == <<mounted, tasks, pollingIntervals, timers, polls, sent, cleared, posted>>
vars == <<svcVars, jobVars, histVars, envVars, signed, uiVars>>

\* ------------------------------------------------------------ pure helpers
Range(s) == {s[i] : i \in 1..Len(s)}

RECURSIVE Pow(_, _)
Pow(b, k) == IF k = 0 THEN 1 ELSE b * Pow(b, k - 1)

\* Candidate cell texts of the spreadsheet: an absolute URL and a string that
\* new URL() rejects.
GoodUrl == "http://a.example/page"
BadUrl == "not a url"
RawStrings == {GoodUrl, BadUrl}
Hostname(u) == IF u = GoodUrl THEN "a.example" ELSE ""

\* validateUrl: new URL(url) succeeds.
validateUrl(u) == u = GoodUrl

\* Error messages the attempt's steps can throw; a message is the sequence of
\* the phrases it is made of, and String.includes is membership in it.
MsgTimeout == <<"Navigation timeout of", "ms exceeded">>
MsgProtocol == <<"Protocol error", "(Page.navigate)", "Target closed">>
MsgSession == <<"Protocol error", "Session closed", "Most likely the page has been closed">>
MsgNavFailed == <<"Navigation failed", "because browser has disconnected">>
MsgUpload == <<"Failed to upload to S3">>
MsgDb == <<"SequelizeConnectionError">>
MsgHttp == <<"HTTP Error">>
BrowserErrors == {MsgTimeout, MsgProtocol, MsgSession, MsgNavFailed}
Statuses == {0, 200, 304, 399, 400, 404, 500}

\* isFatalError written with every() in the place of some().
isFatalErrorEvery(msg) ==
    \A m \in {"Protocol error", "Session closed", "Navigation failed", "Target closed"} :
      m \in Range(msg)

fatalMessages == {"Protocol error", "Session closed", "Navigation failed", "Target closed"}
isFatalError(msg) == \E m \in fatalMessages : m \in Range(msg)

\* createQueue
createQueue(us, initialTimeout) ==
    [i \in 1..Len(us) |-> [id |-> i, url |-> us[i], attempts |-> 0, timeout |-> initialTimeout]]

\* generateFilename that leaves the index out of the name.
generateFilenameNoIndex(url, index, t) == <<"png", 0, Hostname(url), t>>

\* generateFilename: `${index}_${hostname}_${Date.now()}.png`
generateFilename(url, index, t) == <<"png", index, Hostname(url), t>>

\* processFile's archive key: `${uuidv4()}_${Date.now()}.zip`; the uuid is
\* fresh for every call, which the job id stands for.
zipFilename(j, t) == <<"zip", j, "", t>>

\* checkCircuitBreaker with the cooldown comparison inverted.
checkCircuitBreakerInverted(c, t) ==
    IF c.isOpen
    THEN IF t - c.lastFailure < resetTimeout
         THEN [blocked |-> FALSE, state |-> [c EXCEPT !.isOpen = FALSE, !.failureCount = 0]]
         ELSE [blocked |-> TRUE, state |-> c]
    ELSE [blocked |-> FALSE, state |-> c]

\* checkCircuitBreaker without its `return true`: an open breaker inside its
\* cooldown falls through to `return false`.
checkCircuitBreakerFallThrough(c, t) ==
    IF c.isOpen /\ t - c.lastFailure > resetTimeout
    THEN [blocked |-> FALSE, state |-> [c EXCEPT !.isOpen = FALSE, !.failureCount = 0]]
    ELSE [blocked |-> FALSE, state |-> c]

\* checkCircuitBreaker that closes the breaker after the cooldown but leaves
\* the failure count as it was.
checkCircuitBreakerKeepsCount(c, t) ==
    IF c.isOpen
    THEN IF t - c.lastFailure > resetTimeout
         THEN [blocked |-> FALSE, state |-> [c EXCEPT !.isOpen = FALSE]]
         ELSE [blocked |-> TRUE, state |-> c]
    ELSE [blocked |-> FALSE, state |-> c]

\* checkCircuitBreaker: the value returned and the state left behind.
checkCircuitBreaker(c, t) ==
    IF c.isOpen
    THEN IF t - c.lastFailure > resetTimeout
         THEN [blocked |-> FALSE, state |-> [c EXCEPT !.isOpen = FALSE, !.failureCount = 0]]
         ELSE [blocked |-> TRUE, state |-> c]
    ELSE [blocked |-> FALSE, state |-> c]

\* resetCircuitBreaker that also closes the breaker.
resetCircuitBreakerCloses(c) == [c EXCEPT !.failureCount = 0, !.isOpen = FALSE]

\* resetCircuitBreaker
resetCircuitBreaker(c) == [c EXCEPT !.failureCount = 0]

\* updateCircuitBreaker opening at the threshold instead of above it.
updateCircuitBreakerAtThreshold(c, t) ==
    LET n == c.failureCount + 1 IN
    IF n >= failureThreshold
    THEN [c EXCEPT !.failureCount = n, !.isOpen = TRUE, !.lastFailure = t]
    ELSE [c EXCEPT !.failureCount = n]

\* updateCircuitBreaker that counts the failure only when it does not trip the
\* breaker.
updateCircuitBreakerTripNoCount(c, t) ==
    IF c.failureCount >= failureThreshold
    THEN [c EXCEPT !.isOpen = TRUE, !.lastFailure = t]
    ELSE [c EXCEPT !.failureCount = @ + 1]

\* updateCircuitBreaker that starts the count again when it opens the breaker.
updateCircuitBreakerTripClears(c, t) ==
    LET n == c.failureCount + 1 IN
    IF n > failureThreshold
    THEN [c EXCEPT !.failureCount = 0, !.isOpen = TRUE, !.lastFailure = t]
    ELSE [c EXCEPT !.failureCount = n]

\* updateCircuitBreaker
updateCircuitBreaker(c, t) ==
    LET n == c.failureCount + 1 IN
    IF n > failureThreshold
    THEN [c EXCEPT !.failureCount = n, !.isOpen = TRUE, !.lastFailure = t]
    ELSE [c EXCEPT !.failureCount = n]

\* handleError with the budget test off by one (attempts <= maxAttempts - 1).
handleErrorOffByOne(it, q, maxAttempts, timeoutMultiplier) ==
    IF it.attempts <= maxAttempts - 1
    THEN Append(q, [it EXCEPT !.attempts = @ + 1, !.timeout = @ * timeoutMultiplier])
    ELSE q

\* handleError that requeues without raising the timeout.
handleErrorNoBackoff(it, q, maxAttempts, timeoutMultiplier) ==
    IF it.attempts < maxAttempts - 1
    THEN Append(q, [it EXCEPT !.attempts = @ + 1])
    ELSE q

\* handleError that pushes the item back twice.
handleErrorRequeuesTwice(it, q, maxAttempts, timeoutMultiplier) ==
    LET it2 == [it EXCEPT !.attempts = @ + 1, !.timeout = @ * timeoutMultiplier] IN
    IF it.attempts < maxAttempts - 1
    THEN Append(Append(q, it2), it2)
    ELSE q

\* handleError that puts the item back at the front (queue.unshift).
handleErrorUnshift(it, q, maxAttempts, timeoutMultiplier) ==
    IF it.attempts < maxAttempts - 1
    THEN <<[it EXCEPT !.attempts = @ + 1, !.timeout = @ * timeoutMultiplier]>> \o q
    ELSE q

\* handleError that requeues without counting the attempt.
handleErrorKeepsAttempts(it, q, maxAttempts, timeoutMultiplier) ==
    IF it.attempts < maxAttempts - 1
    THEN Append(q, [it EXCEPT !.timeout = @ * timeoutMultiplier])
    ELSE q

\* handleError: the queue it leaves (the item is pushed back, mutated, or dropped).
handleError(it, q, maxAttempts, timeoutMultiplier) ==
    IF it.attempts < maxAttempts - 1
    THEN Append(q, [it EXCEPT !.attempts = @ + 1, !.timeout = @ * timeoutMultiplier])
    ELSE q

\* The browser processes of one createScreenshots call: live counts those
\* launched and not yet closed, peak is the most that were live at once,
\* recycled tells whether the catch block just left has replaced the browser
\* (it is cleared at the next loop head), pages counts the pages opened by
\* browser.newPage() and not closed yet.
NoSessions == [live |-> 0, peak |-> 0, recycled |-> FALSE, pages |-> 0]

\* The inner finally block left out: the page stays as the attempt left it.
closePageNever(pg) == pg

\* The inner finally block: if (page && !page.isClosed()) await page.close().
closePage(pg) == IF pg = "open" THEN "closed" ELSE pg

\* The pages left open in the browser once the finally block has dealt with
\* the iteration's page pg.
pagesAfter(s, pg) ==
    [s EXCEPT !.pages = IF pg = "open" /\ closePage(pg) = "closed" THEN @ - 1 ELSE @]

\* launchBrowser: puppeteer.launch() resolved.
launchBrowser(s) ==
    [s EXCEPT !.live = @ + 1, !.peak = IF s.live + 1 > @ THEN s.live + 1 ELSE @]

\* browser.close() on a browser that is not closed yet.
closeBrowser(s) == [s EXCEPT !.live = IF @ > 0 THEN @ - 1 ELSE 0, !.recycled = FALSE]

\* restartBrowser that launches without closing the old browser.
restartBrowserNoClose(s, launched) ==
    IF launched
    THEN [launchBrowser(s) EXCEPT !.recycled = TRUE]
    ELSE s

\* restartBrowser that launches the new browser before closing the old one.
restartBrowserLaunchFirst(s, launched) ==
    IF launched
    THEN [closeBrowser(launchBrowser(s)) EXCEPT !.recycled = TRUE]
    ELSE closeBrowser(s)

\* restartBrowser: await oldBrowser.close(); return this.launchBrowser().
\* launched = FALSE: the launch throws after the old browser was closed.
restartBrowser(s, launched) ==
    IF launched
    THEN [launchBrowser(closeBrowser(s)) EXCEPT !.recycled = TRUE]
    ELSE closeBrowser(s)

\* ------------------------------------------------------------------- Init
FaultKinds == {"store", "progress", "launch", "zipget", "zipput", "breaker", "rm"}

\* The writes of one job to its record, counted where the code makes them: the
\* progress write taskModel.update({ completed }) in the loop, and the status
\* writes completed and failed of processFile.
NoWrites == [progress |-> 0, terminal |-> 0]

progressWritten(w) == [w EXCEPT !.progress = @ + 1]

\* A path that returns without a status write.
terminalWrittenNever(w) == w

terminalWritten(w) == [w EXCEPT !.terminal = @ + 1]


NoFaults == [k \in FaultKinds |-> 0]
NoTask == [status |-> "none", urlsCount |-> <<>>, completed |-> <<>>, s3Key |-> <<>>]

InitState ==
    /\ cb = [isOpen |-> FALSE, lastFailure |-> 0, failureCount |-> 0]
    /\ now = 0
    /\ streak = 0
    /\ tripTime = <<>>
    /\ pc = [j \in Jobs |-> "idle"]
    /\ task = [j \in Jobs |-> NoTask]
    /\ urls = [j \in Jobs |-> <<>>]
    /\ queue = [j \in Jobs |-> <<>>]
    /\ item = [j \in Jobs |-> <<>>]
    /\ page = [j \in Jobs |-> "null"]
    /\ screenshotKeys = [j \in Jobs |-> <<>>]
    /\ browser = [j \in Jobs |-> "undefined"]
    /\ sessions = [j \in Jobs |-> NoSessions]
    /\ signed = <<>>
    /\ archive = [j \in Jobs |-> <<>>]
    /\ uploaded = [j \in Jobs |-> <<>>]
    /\ failures = [j \in Jobs |-> <<>>]
    /\ succeeded = [j \in Jobs |-> {}]
    /\ faults = [j \in Jobs |-> NoFaults]
    /\ abortedAt = [j \in Jobs |-> <<>>]
    /\ keyItem = [j \in Jobs |-> <<>>]
    /\ lastError = [j \in Jobs |-> <<>>]
    /\ writes = [j \in Jobs |-> NoWrites]
    /\ waited = [j \in Jobs |-> <<>>]
    /\ mounted = FALSE
    /\ tasks = [j \in Jobs |-> <<>>]
    /\ pollingIntervals = [j \in Jobs |-> <<>>]
    /\ timers = [j \in Jobs |-> {}]
    /\ polls = {}
    /\ sent = [j \in Jobs |-> 0]
    /\ cleared = [j \in Jobs |-> FALSE]
    /\ posted = [j \in Jobs |-> FALSE]

Init ==
    /\ InitState
    /\ quota = MaxUrls
    /\ faultsLeft = MaxFaults

\* The same service with a reliable environment: object storage, the job-record
\* store and browser launches never fail; pages still time out, answer with
\* error statuses and crash.
InitReliable ==
    /\ InitState
    /\ quota = ReliableUrls
    /\ faultsLeft = 0

\* The service of the filesystem revision (screenshots and the archive are
\* files of a temporary directory of the job).
InitFs ==
    /\ InitState
    /\ quota = FsUrls
    /\ faultsLeft = MaxFaults

\* The service with the faults of Init and a smaller supply of cell texts.
InitBrief ==
    /\ InitState
    /\ quota = BriefUrls
    /\ faultsLeft = MaxFaults

\* The service with the faults of Init and cell texts for a run of two URLs
\* and a run after it.
InitCarry ==
    /\ InitState
    /\ quota = CarryUrls
    /\ faultsLeft = MaxFaults

\* The reliable environment, with clients that also ask for download links.
InitDownload ==
    /\ InitState
    /\ quota = DownloadUrls
    /\ faultsLeft = 0

\* The reliable environment, for uploads whose processing overlaps.
InitConcurrent ==
    /\ InitState
    /\ quota = ConcurrentUrls
    /\ faultsLeft = 0

\* The reliable environment, for one invocation followed next to others.
InitShared ==
    /\ InitState
    /\ quota = SharedUrls
    /\ faultsLeft = 0

\* ---------------------------------------------------------------- actions
RECURSIVE Seqs(_, _)
Seqs(S, n) == IF n = 0 THEN {<<>>} ELSE Seqs(S, n - 1) \cup {Append(s, x) : s \in Seqs(S, n - 1), x \in S}

\* readUrlsFromExcel that returns every cell text.
readUrlsFromExcelNoFilter(raw) == raw

\* readUrlsFromExcel: the cell texts, filtered by validateUrl.
readUrlsFromExcel(raw) == SelectSeq(raw, validateUrl)

\* validateResponse with > in the place of >=.
validateResponseAbove400(resp) == ~(resp /= <<>> /\ resp[1] > 400)

\* validateResponse: TRUE when it does not throw. resp is <<>> (goto returned
\* null) or <<status>>.
validateResponse(resp) == ~(resp /= <<>> /\ resp[1] >= 400)

Responses == {<<>>} \cup {<<s>> : s \in Statuses}

\* processFile's catch leaving the record as it is.
FailedKeepsStatus(t) == t

\* processFile's catch: task.update({ status: 'failed' })
Failed(t) == [t EXCEPT !.status = "failed"]

\* The progress write made with the count taken before the push.
progressWriteBeforePush(t, keys) == [t EXCEPT !.completed = <<Len(keys) - 1>>]

\* The last write of processFile's try block with the status left out.
CompletedKeyOnly(t, k) == [t EXCEPT !.s3Key = <<k>>]

\* task.update({ status: 'completed', s3Key: zipS3Key, processedAt })
Completed(t, k) == [t EXCEPT !.status = "completed", !.s3Key = <<k>>]

\* The progress write: taskModel.update({ completed: screenshotKeys.length })
progressWrite(t, keys) == [t EXCEPT !.completed = <<Len(keys)>>]

Seen(f, kind) == [f EXCEPT ![kind] = @ + 1]

\* One processFile at a time: an invocation starts when the one before it has
\* returned. The locals of an invocation that has returned are gone, so the
\* next one takes over its slot.
MayStart(j) ==
    /\ j = 1
    /\ pc[j] \in {"idle", "done"}

\* processFile up to the call of createScreenshots: the record is created with
\* status processing, the sheet is read and filtered, urlsCount is written.
\* raw: the texts of the string cells of column 1, below the header row.
processFileOf(j, raw) ==
    /\ LET us == readUrlsFromExcel(raw) IN
       /\ urls' = [urls EXCEPT ![j] = us]
       /\ task' = [task EXCEPT ![j] = [NoTask EXCEPT !.status = "processing",
                                                    !.urlsCount = <<Len(us)>>]]
       /\ failures' = [failures EXCEPT ![j] = [i \in 1..Len(us) |-> 0]]
       /\ quota' = quota - Len(raw)
    /\ pc' = [pc EXCEPT ![j] = "launch"]
    /\ queue' = [queue EXCEPT ![j] = <<>>]
    /\ item' = [item EXCEPT ![j] = <<>>]
    /\ page' = [page EXCEPT ![j] = "null"]
    /\ screenshotKeys' = [screenshotKeys EXCEPT ![j] = <<>>]
    /\ browser' = [browser EXCEPT ![j] = "undefined"]
    /\ sessions' = [sessions EXCEPT ![j] = NoSessions]
    /\ archive' = [archive EXCEPT ![j] = <<>>]
    /\ uploaded' = [uploaded EXCEPT ![j] = <<>>]
    /\ succeeded' = [succeeded EXCEPT ![j] = {}]
    /\ faults' = [faults EXCEPT ![j] = NoFaults]
    /\ abortedAt' = [abortedAt EXCEPT ![j] = <<>>]
    /\ keyItem' = [keyItem EXCEPT ![j] = <<>>]
    /\ lastError' = [lastError EXCEPT ![j] = <<>>]
    /\ writes' = [writes EXCEPT ![j] = NoWrites]
    /\ waited' = [waited EXCEPT ![j] = <<>>]
    /\ UNCHANGED <<svcVars, faultsLeft, signed, uiVars>>

processFile(j) == \E raw \in Seqs(RawStrings, quota) : processFileOf(j, raw)

\* A request handled while no other is in flight.
ProcessFile(j) == MayStart(j) /\ processFile(j)

\* The controller awaits nothing between requests, so a second upload starts
\* its processFile while the first is still running; each invocation has its
\* own job record and locals. Slots are taken in order.
MayOverlap(j) ==
    /\ pc[j] = "idle"
    /\ \A k \in Jobs : k < j => pc[k] /= "idle"

ProcessFileConcurrent(j) == MayOverlap(j) /\ processFile(j)

\* One processFile at a time, each with a job record of its own that is kept
\* when the invocation has returned.
MayFollow(j) ==
    /\ pc[j] = "idle"
    /\ \A k \in Jobs : k < j => pc[k] = "done"

ProcessFileNext(j) == MayFollow(j) /\ processFile(j)

\* createScreenshots: launchBrowser and createQueue. When the launch throws,
\* browser is still undefined, the finally block closes nothing and processFile's
\* catch marks the job failed.
LaunchBrowser(j) ==
    /\ pc[j] = "launch"
    /\ \E ok \in BOOLEAN :
         IF ok
         THEN /\ browser' = [browser EXCEPT ![j] = "live"]
              /\ sessions' = [sessions EXCEPT ![j] = launchBrowser(@)]
              /\ queue' = [queue EXCEPT ![j] = createQueue(urls[j], INITIAL_TIMEOUT)]
              /\ pc' = [pc EXCEPT ![j] = "loop"]
              /\ UNCHANGED <<task, writes, faults, faultsLeft>>
         ELSE /\ faultsLeft > 0
              /\ faultsLeft' = faultsLeft - 1
              /\ task' = [task EXCEPT ![j] = Failed(@)]
              /\ writes' = [writes EXCEPT ![j] = terminalWritten(@)]
              /\ faults' = [faults EXCEPT ![j] = Seen(@, "launch")]
              /\ pc' = [pc EXCEPT ![j] = "done"]
              /\ UNCHANGED <<browser, sessions, queue>>
    /\ UNCHANGED <<svcVars, urls, item, page, screenshotKeys, archive, uploaded>>
    /\ UNCHANGED <<failures, succeeded, abortedAt, keyItem, lastError, waited, quota, signed, uiVars>>

\* The catch block of an attempt, for item `it` taken from the queue now `q`,
\* breaker state `c`, error message `msg`: handleError, updateCircuitBreaker,
\* and restartBrowser when the message is fatal; then the finally block
\* (page.close() when the iteration's page `pg` was opened). A relaunch that throws leaves the
\* loop: the outer finally closes the (already closed) old browser and
\* processFile's catch marks the job failed.
CatchBlock(j, it, q, c, pg, msg, kinds, keys, kit) ==
    LET c2 == updateCircuitBreaker(c, now)
        f2 == [k \in FaultKinds |-> faults[j][k] + (IF k \in kinds THEN 1 ELSE 0)]
        left == faultsLeft - Cardinality(kinds)
        w1 == IF Len(keys) > Len(screenshotKeys[j])
              THEN progressWritten(writes[j]) ELSE writes[j]
    IN
    /\ left >= 0
    /\ lastError' = [lastError EXCEPT ![j] = <<msg>>]
    /\ waited' = [waited EXCEPT ![j] = <<>>]
    /\ queue' = [queue EXCEPT ![j] = handleError(it, q, MAX_ATTEMPTS, TIMEOUT_MULTIPLIER)]
    /\ cb' = c2
    /\ streak' = streak + 1
    /\ tripTime' = IF ~c.isOpen /\ c2.isOpen THEN <<now>> ELSE tripTime
    /\ failures' = [failures EXCEPT ![j][it.id] = @ + 1]
    /\ item' = [item EXCEPT ![j] = <<>>]
    /\ page' = [page EXCEPT ![j] = closePage(pg)]
    /\ screenshotKeys' = [screenshotKeys EXCEPT ![j] = keys]
    /\ keyItem' = [keyItem EXCEPT ![j] = kit]
    /\ IF isFatalError(msg)
       THEN \E relaunched \in BOOLEAN :
              IF relaunched
              THEN /\ browser' = [browser EXCEPT ![j] = "live"]
                   /\ sessions' = [sessions EXCEPT ![j] = pagesAfter(restartBrowser(@, TRUE), pg)]
                   /\ pc' = [pc EXCEPT ![j] = "loop"]
                   /\ faults' = [faults EXCEPT ![j] = f2]
                   /\ faultsLeft' = left
                   /\ task' = task
                   /\ writes' = [writes EXCEPT ![j] = w1]
              ELSE /\ left > 0
                   /\ faultsLeft' = left - 1
                   /\ browser' = [browser EXCEPT ![j] = "closed"]
                   /\ sessions' = [sessions EXCEPT ![j] = pagesAfter(restartBrowser(@, FALSE), pg)]
                   /\ pc' = [pc EXCEPT ![j] = "done"]
                   /\ faults' = [faults EXCEPT ![j] = Seen(f2, "launch")]
                   /\ task' = [task EXCEPT ![j] = Failed(@)]
                   /\ writes' = [writes EXCEPT ![j] = terminalWritten(w1)]
       ELSE /\ pc' = [pc EXCEPT ![j] = "loop"]
            /\ faults' = [faults EXCEPT ![j] = f2]
            /\ faultsLeft' = left
            /\ sessions' = [sessions EXCEPT ![j] = pagesAfter([@ EXCEPT !.recycled = FALSE], pg)]
            /\ UNCHANGED <<browser, task>>
            /\ writes' = [writes EXCEPT ![j] = w1]

\* The head of the while loop. Queue empty: return screenshotKeys (finally:
\* browser.close()). Otherwise checkCircuitBreaker; blocked: throw, which the
\* finally block (browser.close()) and processFile's catch (status failed)
\* follow. Not blocked: queue.shift() and browser.newPage() / configurePage,
\* which return a page or throw into the catch block.
LoopHead(j) ==
    /\ pc[j] = "loop"
    /\ IF queue[j] = <<>>
       THEN /\ browser' = [browser EXCEPT ![j] = "closed"]
            /\ sessions' = [sessions EXCEPT ![j] = closeBrowser(@)]
            /\ pc' = [pc EXCEPT ![j] = "zip"]
            /\ lastError' = [lastError EXCEPT ![j] = <<>>]
            /\ waited' = [waited EXCEPT ![j] = <<>>]
            /\ UNCHANGED <<svcVars, task, urls, queue, item, page, screenshotKeys, archive, uploaded>>
            /\ UNCHANGED <<failures, succeeded, faults, abortedAt, keyItem, writes, envVars, signed, uiVars>>
       ELSE LET r == checkCircuitBreaker(cb, now) IN
            IF r.blocked
            THEN /\ cb' = r.state
                 /\ browser' = [browser EXCEPT ![j] = "closed"]
                 /\ sessions' = [sessions EXCEPT ![j] = closeBrowser(@)]
                 /\ task' = [task EXCEPT ![j] = Failed(@)]
                 /\ writes' = [writes EXCEPT ![j] = terminalWritten(@)]
                 /\ pc' = [pc EXCEPT ![j] = "done"]
                 /\ abortedAt' = [abortedAt EXCEPT ![j] = <<now>>]
                 /\ faults' = [faults EXCEPT ![j] = Seen(@, "breaker")]
                 /\ UNCHANGED <<now, streak, tripTime, urls, queue, item, page, screenshotKeys>>
                 /\ lastError' = [lastError EXCEPT ![j] = <<>>]
                 /\ waited' = [waited EXCEPT ![j] = <<>>]
                 /\ UNCHANGED <<archive, uploaded, failures, succeeded, keyItem, envVars, signed, uiVars>>
            ELSE \/ /\ cb' = r.state
                    /\ item' = [item EXCEPT ![j] = <<Head(queue[j])>>]
                    /\ queue' = [queue EXCEPT ![j] = Tail(@)]
                    /\ page' = [page EXCEPT ![j] = "open"]
                    /\ pc' = [pc EXCEPT ![j] = "nav"]
                    /\ UNCHANGED <<now, streak, tripTime, task, urls, screenshotKeys>>
                    /\ sessions' = [sessions EXCEPT ![j].recycled = FALSE, ![j].pages = @ + 1]
                    /\ lastError' = [lastError EXCEPT ![j] = <<>>]
                    /\ waited' = [waited EXCEPT ![j] = <<>>]
                    /\ UNCHANGED <<browser, archive, uploaded>>
                    /\ UNCHANGED <<failures, succeeded, faults, abortedAt, keyItem, writes, envVars, signed, uiVars>>
                 \/ /\ \E msg \in BrowserErrors :
                         CatchBlock(j, Head(queue[j]), Tail(queue[j]), r.state, "null", msg,
                                    {}, screenshotKeys[j], keyItem[j])
                    /\ UNCHANGED <<now, urls, archive, uploaded>>
                    /\ UNCHANGED <<succeeded, abortedAt, quota, signed, uiVars>>

\* The attempt for the dequeued item ends in the catch block because page.goto
\* or page.screenshot throws (timeout, or the page or browser is gone).
PageThrows(j) ==
    /\ \E msg \in BrowserErrors :
         CatchBlock(j, item[j][1], queue[j], cb, page[j], msg, {},
                    screenshotKeys[j], keyItem[j])
    /\ UNCHANGED succeeded

\* validateResponse throws.
HttpFault(j) ==
    /\ CatchBlock(j, item[j][1], queue[j], cb, page[j], MsgHttp, {},
                  screenshotKeys[j], keyItem[j])
    /\ UNCHANGED succeeded

\* The try block from uploadBufferToS3 to resetCircuitBreaker when no step
\* throws: the object is stored, its key pushed, completed written, the
\* breaker's failure count reset.
Stored(j) ==
    LET it == item[j][1]
        key == generateFilename(it.url, Len(screenshotKeys[j]) + 1, now)
        keys2 == Append(screenshotKeys[j], key)
    IN
    /\ screenshotKeys' = [screenshotKeys EXCEPT ![j] = keys2]
    /\ keyItem' = [keyItem EXCEPT ![j] = Append(@, it.id)]
    /\ task' = [task EXCEPT ![j] = progressWrite(@, keys2)]
    /\ writes' = [writes EXCEPT ![j] = progressWritten(@)]
    /\ cb' = resetCircuitBreaker(cb)
    /\ streak' = 0
    /\ succeeded' = [succeeded EXCEPT ![j] = @ \cup {it.id}]
    /\ UNCHANGED <<tripTime, queue, browser, failures, faults, faultsLeft, lastError>>

\* The finally block of an iteration whose try block ran to its end:
\* page.close(), and the loop goes back to its head.
FinallyBlock(j) ==
    /\ item' = [item EXCEPT ![j] = <<>>]
    /\ page' = [page EXCEPT ![j] = closePage(@)]
    /\ sessions' = [sessions EXCEPT ![j] = pagesAfter(@, page[j])]
    /\ pc' = [pc EXCEPT ![j] = "loop"]

\* The try block once page.screenshot has returned the image:
\* uploadBufferToS3, screenshotKeys.push, the progress write,
\* resetCircuitBreaker, the politeness delay; with the catch and finally
\* blocks.
StoreFails(j) ==
    LET it == item[j][1]
        key == generateFilename(it.url, Len(screenshotKeys[j]) + 1, now)
        keys2 == Append(screenshotKeys[j], key)
        kit2 == Append(keyItem[j], it.id)
    IN
    \/ \* uploadBufferToS3 throws: nothing is stored
       /\ CatchBlock(j, it, queue[j], cb, page[j], MsgUpload, {"store"}, screenshotKeys[j], keyItem[j])
       /\ UNCHANGED succeeded
    \/ \* the object is stored and its key pushed, then taskModel.update throws
       /\ CatchBlock(j, it, queue[j], cb, page[j], MsgDb, {"progress"}, keys2, kit2)
       /\ UNCHANGED succeeded

StoreCapture(j) ==
    \/ StoreFails(j)
    \/ \* every step succeeds
       /\ Stored(j)
       /\ FinallyBlock(j)
       /\ UNCHANGED waited

\* Math.random() is r / RandomScale, a number of [0, 1); the draws followed
\* are the least, a middle and the greatest one.
RandomScale == 1000
Randoms == {0, RandomScale \div 2, RandomScale - 1}

\* The delay computed as Math.random() * (base + jitter).
politenessDelayScaled(base, jitter, r) == (r * (base + jitter)) \div RandomScale

\* BASE_DELAY + Math.random() * JITTER, in whole ms.
politenessDelay(base, jitter, r) == base + (r * jitter) \div RandomScale

\* The try block with the politeness delay as a step of its own: when no step
\* throws, the iteration is next at its setTimeout, the page still open.
StoreThenWait(j) ==
    \/ StoreFails(j)
    \/ /\ Stored(j)
       /\ pc' = [pc EXCEPT ![j] = "delay"]
       /\ UNCHANGED <<item, page, sessions, waited>>

AttemptThenWait(j) ==
    /\ pc[j] = "nav"
    /\ \/ PageThrows(j)
       \/ (\E resp \in Responses : ~validateResponse(resp)) /\ HttpFault(j)
       \/ (\E resp \in Responses : validateResponse(resp)) /\ StoreThenWait(j)
    /\ UNCHANGED <<now, urls, archive, uploaded, abortedAt, quota, signed, uiVars>>

\* await new Promise(resolve => setTimeout(resolve, BASE_DELAY +
\* Math.random() * JITTER)), the last statement of the try block, and the
\* finally block after it.
Delay(j) ==
    /\ pc[j] = "delay"
    /\ \E r \in Randoms :
         waited' = [waited EXCEPT ![j] = <<politenessDelay(BASE_DELAY, JITTER, r)>>]
    /\ FinallyBlock(j)
    /\ UNCHANGED <<svcVars, task, urls, queue, screenshotKeys, browser, archive, uploaded>>
    /\ UNCHANGED <<failures, succeeded, faults, abortedAt, keyItem, lastError, writes, envVars, signed, uiVars>>

\* The try block once navigatePage has resolved with resp (<<>>: page.goto
\* returned null; status 0 is what a file: URL answers with):
\* validateResponse, then takeScreenshot and what follows it.
AttemptAfter(j, resp) ==
    IF validateResponse(resp)
    THEN PageThrows(j) \/ StoreCapture(j)
    ELSE HttpFault(j)

\* The rest of the try block for the dequeued item, with its catch and finally
\* (page.close()): navigatePage, validateResponse, takeScreenshot (screenshot
\* and uploadBufferToS3), screenshotKeys.push, the progress write,
\* resetCircuitBreaker, the politeness delay. The response matters only to
\* validateResponse.
Attempt(j) ==
    /\ pc[j] = "nav"
    /\ \/ PageThrows(j)
       \/ (\E resp \in Responses : ~validateResponse(resp)) /\ HttpFault(j)
       \/ (\E resp \in Responses : validateResponse(resp)) /\ StoreCapture(j)
    /\ UNCHANGED <<now, urls, archive, uploaded, abortedAt, quota, signed, uiVars>>

\* createZipFromS3 that logs a failed GetObject and goes on to the next key.
createZipFromS3SkipFailed(s3Keys, failAt) ==
    IF failAt = 0
    THEN [ok |-> TRUE, entries |-> s3Keys]
    ELSE [ok |-> TRUE,
          entries |-> SubSeq(s3Keys, 1, failAt - 1) \o SubSeq(s3Keys, failAt + 1, Len(s3Keys))]

\* createZipFromS3: the entries appended before the promise settles. failAt = 0:
\* every GetObject succeeds; failAt = i: the i-th one throws and the promise is
\* rejected.
createZipFromS3(s3Keys, failAt) ==
    IF failAt = 0
    THEN [ok |-> TRUE, entries |-> s3Keys]
    ELSE [ok |-> FALSE, entries |-> SubSeq(s3Keys, 1, failAt - 1)]

CreateZip(j) ==
    /\ pc[j] = "zip"
    /\ \E failAt \in 0..Len(screenshotKeys[j]) :
         LET z == createZipFromS3(screenshotKeys[j], failAt) IN
         /\ archive' = [archive EXCEPT ![j] = z.entries]
         /\ IF failAt = 0
            THEN UNCHANGED <<faults, faultsLeft>>
            ELSE /\ faultsLeft > 0
                 /\ faultsLeft' = faultsLeft - 1
                 /\ faults' = [faults EXCEPT ![j] = Seen(@, "zipget")]
         /\ IF z.ok
            THEN /\ pc' = [pc EXCEPT ![j] = "upload"]
                 /\ UNCHANGED <<task, writes>>
            ELSE /\ pc' = [pc EXCEPT ![j] = "done"]
                 /\ task' = [task EXCEPT ![j] = Failed(@)]
                 /\ writes' = [writes EXCEPT ![j] = terminalWritten(@)]
    /\ UNCHANGED <<svcVars, urls, queue, item, page, screenshotKeys, browser, sessions, uploaded>>
    /\ UNCHANGED <<failures, succeeded, abortedAt, keyItem, lastError, waited, quota, signed, uiVars>>

\* processFile: uploadBufferToS3 of the archive and the completed write.
UploadZip(j) ==
    /\ pc[j] = "upload"
    /\ \E ok \in BOOLEAN :
         IF ok
         THEN LET k == zipFilename(j, now) IN
              /\ uploaded' = [uploaded EXCEPT ![j] = Append(@, [key |-> k, entries |-> archive[j]])]
              /\ task' = [task EXCEPT ![j] = Completed(@, k)]
              /\ writes' = [writes EXCEPT ![j] = terminalWritten(@)]
              /\ UNCHANGED <<faults, faultsLeft>>
         ELSE /\ faultsLeft > 0
              /\ faultsLeft' = faultsLeft - 1
              /\ task' = [task EXCEPT ![j] = Failed(@)]
              /\ writes' = [writes EXCEPT ![j] = terminalWritten(@)]
              /\ faults' = [faults EXCEPT ![j] = Seen(@, "zipput")]
              /\ UNCHANGED uploaded
    /\ pc' = [pc EXCEPT ![j] = "done"]
    /\ UNCHANGED <<svcVars, urls, queue, item, page, screenshotKeys, browser, sessions, archive>>
    /\ UNCHANGED <<failures, succeeded, abortedAt, keyItem, lastError, waited, quota, signed, uiVars>>

\* Time passes. The program reads the clock in checkCircuitBreaker only while
\* the breaker is open, and as now - lastFailure with lastFailure stamped when
\* it opened, so the time that passes while it is closed is never observed by
\* it; the clock is advanced only while the breaker is open.
Tick ==
    /\ cb.isOpen
    /\ now < MaxTicks * TickMs
    /\ now' = now + TickMs
    /\ UNCHANGED <<cb, streak, tripTime, jobVars, histVars, envVars, signed, uiVars>>

Next ==
    \/ \E j \in Jobs : ProcessFile(j)
    \/ \E j \in Jobs : LaunchBrowser(j)
    \/ \E j \in Jobs : LoopHead(j)
    \/ \E j \in Jobs : Attempt(j)
    \/ \E j \in Jobs : CreateZip(j)
    \/ \E j \in Jobs : UploadZip(j)
    \/ Tick

Spec == Init /\ [][Next]_vars
SpecReliable == InitReliable /\ [][Next]_vars
SpecBrief == InitBrief /\ [][Next]_vars
SpecCarry == InitCarry /\ [][Next]_vars

\* The same program with the politeness delay followed as a step.
NextPolite ==
    \/ \E j \in Jobs : ProcessFile(j)
    \/ \E j \in Jobs : LaunchBrowser(j)
    \/ \E j \in Jobs : LoopHead(j)
    \/ \E j \in Jobs : AttemptThenWait(j)
    \/ \E j \in Jobs : Delay(j)
    \/ \E j \in Jobs : CreateZip(j)
    \/ \E j \in Jobs : UploadZip(j)
    \/ Tick

SpecPolite == InitBrief /\ [][NextPolite]_vars

\* Every awaited call returns (resolves or rejects): a job that is at one of
\* its steps takes it.
Returns ==
    \A j \in Jobs :
      /\ WF_vars(LaunchBrowser(j))
      /\ WF_vars(LoopHead(j))
      /\ WF_vars(Attempt(j))
      /\ WF_vars(CreateZip(j))
      /\ WF_vars(UploadZip(j))

SpecLive == InitBrief /\ [][Next]_vars /\ Returns

\* Filesystem revision, createZip: the screenshot files are added to
\* screenshots.zip in the temporary directory. Only the run in which the
\* archive is written is followed here.
CreateZipFs(j) ==
    /\ pc[j] = "zip"
    /\ archive' = [archive EXCEPT ![j] = screenshotKeys[j]]
    /\ pc' = [pc EXCEPT ![j] = "upload"]
    /\ UNCHANGED <<svcVars, task, urls, queue, item, page, screenshotKeys, browser, sessions, uploaded>>
    /\ UNCHANGED <<histVars, envVars, signed, uiVars>>

\* Filesystem revision, processFile: uploadToS3 and the completed write, after
\* which the temporary directory is still to be removed.
UploadToS3(j) ==
    /\ pc[j] = "upload"
    /\ \E ok \in BOOLEAN :
         IF ok
         THEN LET k == zipFilename(j, now) IN
              /\ uploaded' = [uploaded EXCEPT ![j] = Append(@, [key |-> k, entries |-> archive[j]])]
              /\ task' = [task EXCEPT ![j] = Completed(@, k)]
              /\ writes' = [writes EXCEPT ![j] = terminalWritten(@)]
              /\ pc' = [pc EXCEPT ![j] = "cleanup"]
              /\ UNCHANGED <<faults, faultsLeft>>
         ELSE /\ faultsLeft > 0
              /\ faultsLeft' = faultsLeft - 1
              /\ task' = [task EXCEPT ![j] = Failed(@)]
              /\ writes' = [writes EXCEPT ![j] = terminalWritten(@)]
              /\ faults' = [faults EXCEPT ![j] = Seen(@, "zipput")]
              /\ pc' = [pc EXCEPT ![j] = "done"]
              /\ UNCHANGED uploaded
    /\ UNCHANGED <<svcVars, urls, queue, item, page, screenshotKeys, browser, sessions, archive>>
    /\ UNCHANGED <<failures, succeeded, abortedAt, keyItem, lastError, waited, quota, signed, uiVars>>

\* Filesystem revision, processFile: await rm(tempDir, { recursive: true })
\* inside the try block, after the completed write. When rm throws, the catch
\* block writes status failed over the completed record.
RemoveTempDir(j) ==
    /\ pc[j] = "cleanup"
    /\ \E ok \in BOOLEAN :
         IF ok
         THEN UNCHANGED <<task, writes, faults, faultsLeft>>
         ELSE /\ faultsLeft > 0
              /\ faultsLeft' = faultsLeft - 1
              /\ task' = [task EXCEPT ![j] = Failed(@)]
              /\ writes' = [writes EXCEPT ![j] = terminalWritten(@)]
              /\ faults' = [faults EXCEPT ![j] = Seen(@, "rm")]
    /\ pc' = [pc EXCEPT ![j] = "done"]
    /\ UNCHANGED <<svcVars, urls, queue, item, page, screenshotKeys, browser, sessions, archive, uploaded>>
    /\ UNCHANGED <<failures, succeeded, abortedAt, keyItem, lastError, waited, quota, signed, uiVars>>

\* The filesystem revision: its createScreenshots, handleError and breaker are
\* those of the S3 revision, with the file write of page.screenshot in the
\* place of the per-item upload.
NextFs ==
    \/ \E j \in Jobs : ProcessFile(j)
    \/ \E j \in Jobs : LaunchBrowser(j)
    \/ \E j \in Jobs : LoopHead(j)
    \/ \E j \in Jobs : Attempt(j)
    \/ \E j \in Jobs : CreateZipFs(j)
    \/ \E j \in Jobs : UploadToS3(j)
    \/ \E j \in Jobs : RemoveTempDir(j)
    \/ Tick

SpecFs == InitFs /\ [][NextFs]_vars

\* Keys a client may ask a link for: a key no job produced, the keys of the
\* per-item objects, and the keys of the archives.
UnknownKey == <<"zip", 0, "", 0>>
RequestKeys ==
    {UnknownKey}
      \cup UNION {Range(screenshotKeys[j]) : j \in Jobs}
      \cup UNION {{uploaded[j][i].key : i \in 1..Len(uploaded[j])} : j \in Jobs}

\* getFileUrl that signs any key without looking the job record up.
getFileUrlNoLookup(key, rows) ==
    [key |-> key, url |-> <<[key |-> key, expiresIn |-> 3600]>>]

\* getFileUrl: findOne({ where: { s3Key: key } }); no row: NotFoundException
\* (url <<>>); otherwise getSignedUrl of a GetObject for the key, valid 3600 s.
getFileUrl(key, rows) ==
    IF \E t \in rows : t.s3Key = <<key>>
    THEN [key |-> key, url |-> <<[key |-> key, expiresIn |-> 3600]>>]
    ELSE [key |-> key, url |-> <<>>]

\* GET /tasks/:key
GetFileUrl ==
    /\ \E key \in RequestKeys : signed' = <<getFileUrl(key, {task[j] : j \in Jobs})>>
    /\ UNCHANGED <<svcVars, jobVars, histVars, envVars, uiVars>>

\* Uploads, processed one after another, and link requests at any time. Every
\* upload has its own job record, which is kept.
NextDownload ==
    \/ \E j \in Jobs : ProcessFileNext(j)
    \/ \E j \in Jobs : LaunchBrowser(j)
    \/ \E j \in Jobs : LoopHead(j)
    \/ \E j \in Jobs : Attempt(j)
    \/ \E j \in Jobs : CreateZip(j)
    \/ \E j \in Jobs : UploadZip(j)
    \/ GetFileUrl
    \/ Tick

SpecDownload == InitDownload /\ [][NextDownload]_vars

NextConcurrent ==
    \/ \E j \in Jobs : ProcessFileConcurrent(j)
    \/ \E j \in Jobs : LaunchBrowser(j)
    \/ \E j \in Jobs : LoopHead(j)
    \/ \E j \in Jobs : Attempt(j)
    \/ \E j \in Jobs : CreateZip(j)
    \/ \E j \in Jobs : UploadZip(j)
    \/ Tick

SpecConcurrent == InitConcurrent /\ [][NextConcurrent]_vars

\* Another processFile invocation, running at the same time on the same
\* service object, reaches resetCircuitBreaker() at the end of one of its
\* attempts.
OtherSuccess ==
    /\ cb.failureCount > 0
    /\ cb' = resetCircuitBreaker(cb)
    /\ streak' = 0
    /\ UNCHANGED <<now, tripTime, jobVars, histVars, envVars, signed, uiVars>>

\* Another invocation reaches updateCircuitBreaker() in its catch block.
OtherFailure ==
    /\ cb.failureCount < MaxFailureCount
    /\ cb' = updateCircuitBreaker(cb, now)
    /\ streak' = streak + 1
    /\ tripTime' = IF ~cb.isOpen /\ cb'.isOpen THEN <<now>> ELSE tripTime
    /\ UNCHANGED <<now, jobVars, histVars, envVars, signed, uiVars>>

\* One invocation followed step by step, while other invocations that overlap
\* with it act on the breaker they share with it; everything else they touch
\* is their own.
NextShared ==
    \/ \E j \in Jobs : ProcessFile(j)
    \/ \E j \in Jobs : LaunchBrowser(j)
    \/ \E j \in Jobs : LoopHead(j)
    \/ \E j \in Jobs : Attempt(j)
    \/ \E j \in Jobs : CreateZip(j)
    \/ \E j \in Jobs : UploadZip(j)
    \/ OtherSuccess
    \/ OtherFailure
    \/ Tick

SpecShared == InitShared /\ [][NextShared]_vars

\* ------------------------------------------------------- polling front end
backendVars == <<svcVars, pc, urls, queue, item, page, screenshotKeys, browser, sessions,
                 archive, uploaded, histVars, envVars, signed>>

\* processFile seen from the page: a client's upload creates the record with
\* status processing.
TaskCreated(j) ==
    /\ task[j].status = "none"
    /\ task' = [task EXCEPT ![j] = [NoTask EXCEPT !.status = "processing"]]
    /\ UNCHANGED <<backendVars, uiVars>>

\* processFile seen from the page: the run ends with the completed write or
\* with the failed write.
TaskEnds(j) ==
    /\ task[j].status = "processing"
    /\ \/ task' = [task EXCEPT ![j] = Completed(@, zipFilename(j, now))]
       \/ task' = [task EXCEPT ![j] = Failed(@)]
    /\ UNCHANGED <<backendVars, uiVars>>

\* startTaskPolling(taskId), for the task's handle h and live timers tm:
\* returns at once when the task has a handle, else setInterval.
startTaskPolling(h, tm) ==
    IF h /= <<>>
    THEN [handle |-> h, timers |-> tm]
    ELSE LET id == 1 + Cardinality(tm) IN
         [handle |-> <<id>>, timers |-> tm \cup {id}]

\* mounted(): fetchTasks. The list is replaced by the server's and polling is
\* started for every task in status processing.
FetchTasks ==
    /\ ~mounted
    /\ mounted' = TRUE
    /\ tasks' = [j \in Jobs |-> IF task[j].status = "none" THEN <<>> ELSE <<task[j].status>>]
    /\ pollingIntervals' = [j \in Jobs |->
          IF task[j].status = "processing"
          THEN startTaskPolling(pollingIntervals[j], timers[j]).handle
          ELSE pollingIntervals[j]]
    /\ timers' = [j \in Jobs |->
          IF task[j].status = "processing"
          THEN startTaskPolling(pollingIntervals[j], timers[j]).timers
          ELSE timers[j]]
    /\ UNCHANGED <<backendVars, task, polls, sent, cleared, posted>>

\* uploadFile once its POST has returned the record, which processFile
\* returns completed: tasks.unshift(data) and startTaskPolling(data.id).
UploadReturns(j) ==
    /\ mounted
    /\ ~posted[j]
    /\ task[j].status = "completed"
    /\ posted' = [posted EXCEPT ![j] = TRUE]
    /\ tasks' = [tasks EXCEPT ![j] = <<task[j].status>>]
    /\ pollingIntervals' = [pollingIntervals EXCEPT ![j] = startTaskPolling(@, timers[j]).handle]
    /\ timers' = [timers EXCEPT ![j] = startTaskPolling(pollingIntervals[j], @).timers]
    /\ UNCHANGED <<backendVars, task, mounted, polls, sent, cleared>>

\* An interval timer of task j fires: axios.get of /tasks/byId/j is sent.
TimerFires(j) ==
    /\ timers[j] /= {}
    /\ sent[j] < MaxPolls
    /\ sent' = [sent EXCEPT ![j] = @ + 1]
    /\ polls' = polls \cup {[task |-> j, n |-> sent[j] + 1, data |-> <<>>]}
    /\ UNCHANGED <<backendVars, task, mounted, tasks, pollingIntervals, timers, cleared, posted>>

\* The server answers a poll request with the record as it is now (getTask:
\* findByPk).
ServerAnswers ==
    /\ \E p \in polls :
         /\ p.data = <<>>
         /\ polls' = (polls \ {p}) \cup {[p EXCEPT !.data = <<task[p.task].status>>]}
    /\ UNCHANGED <<backendVars, task, mounted, tasks, pollingIntervals, timers, sent, cleared, posted>>

\* The request fails: the callback's catch logs the error.
PollFails ==
    /\ \E p \in polls : polls' = polls \ {p}
    /\ UNCHANGED <<backendVars, task, mounted, tasks, pollingIntervals, timers, sent, cleared, posted>>

\* The rest of the interval callback, run when a response arrives: the
\* task's entry is replaced by the response, and when its status is not
\* processing the timer the handle names is cleared and the handle deleted.
ResponseArrives ==
    /\ \E p \in polls :
         LET j == p.task IN
         /\ p.data /= <<>>
         /\ polls' = polls \ {p}
         /\ tasks' = [tasks EXCEPT ![j] = IF @ /= <<>> THEN p.data ELSE @]
         /\ IF p.data[1] /= "processing"
            THEN /\ timers' = [timers EXCEPT ![j] = @ \ Range(pollingIntervals[j])]
                 /\ pollingIntervals' = [pollingIntervals EXCEPT ![j] = <<>>]
                 /\ cleared' = [cleared EXCEPT ![j] = @ \/ pollingIntervals[j] /= <<>>]
            ELSE UNCHANGED <<pollingIntervals, timers, cleared>>
    /\ UNCHANGED <<backendVars, task, mounted, sent, posted>>

NextPolling ==
    \/ \E j \in Jobs : TaskCreated(j)
    \/ \E j \in Jobs : TaskEnds(j)
    \/ FetchTasks
    \/ \E j \in Jobs : UploadReturns(j)
    \/ \E j \in Jobs : TimerFires(j)
    \/ ServerAnswers
    \/ PollFails
    \/ ResponseArrives

SpecPolling == Init /\ [][NextPolling]_vars

\* ----------------------------------------------------------------- claims
Aborted(j) == abortedAt[j] /= <<>>
InHand(j) == Range(queue[j]) \cup Range(item[j])

RECURSIVE SumTo(_, _)
SumTo(f, n) == IF n = 0 THEN 0 ELSE f[n] + SumTo(f, n - 1)
FailedAttempts(j) == SumTo(failures[j], Len(failures[j]))

\* A step of job j's loop head that makes the breaker check (the queue is not
\* empty).
CheckStep(j) ==
    /\ pc[j] = "loop"
    /\ queue[j] /= <<>>
    /\ <<pc[j], queue[j], item[j], failures[j], abortedAt[j]>>'
         /= <<pc[j], queue[j], item[j], failures[j], abortedAt[j]>>

\* C1: every item's attempts counter is at most maxAttempts, no item fails more
\* than maxAttempts times, and an item that has failed maxAttempts times is
\* neither in the queue nor the item being attempted.
C1_AttemptsBounded ==
    \A j \in Jobs :
      /\ \A it \in InHand(j) : it.attempts <= MAX_ATTEMPTS
      /\ \A id \in DOMAIN failures[j] :
           /\ failures[j][id] <= MAX_ATTEMPTS
           /\ failures[j][id] >= MAX_ATTEMPTS => \A it \in InHand(j) : it.id /= id

\* An item has used up its budget and the loop goes on with the others.
C1_Witness ==
    \E j \in Jobs : \E id \in DOMAIN failures[j] :
      /\ failures[j][id] = MAX_ATTEMPTS
      /\ pc[j] = "loop"
      /\ queue[j] /= <<>>

\* C2: the entries of an uploaded archive are exactly the items that succeeded:
\* every succeeded item has exactly one entry and every entry belongs to an
\* item that succeeded.
C2_ArchiveIsSucceededSet ==
    \A j \in Jobs :
      uploaded[j] /= <<>> =>
        /\ Len(uploaded[j][1].entries) = Len(keyItem[j])
        /\ \A id \in succeeded[j] :
             Cardinality({i \in DOMAIN keyItem[j] : keyItem[j][i] = id}) = 1
        /\ \A i \in DOMAIN keyItem[j] : keyItem[j][i] \in succeeded[j]

\* C3: a step opens the breaker only if it is a failure that makes the run of
\* consecutive failures longer than the threshold of 5, and the failure that
\* makes it 6 long leaves the breaker open.
C3_OpensOnSixthFailure ==
    [][ /\ (~cb.isOpen /\ cb'.isOpen) =>
              (streak' = streak + 1 /\ streak' > failureThreshold)
        /\ (streak' = streak + 1 /\ streak' = failureThreshold + 1) => cb'.isOpen
      ]_vars

\* The sixth consecutive failure has opened the breaker.
C3_Witness ==
    /\ cb.isOpen
    /\ streak = failureThreshold + 1
    /\ cb.failureCount = failureThreshold + 1
    /\ tripTime = <<now>>

C5_StoreResetsBreaker ==
    [][ \A j \in Jobs :
          Len(screenshotKeys'[j]) = Len(screenshotKeys[j]) + 1 => cb'.failureCount = 0
      ]_vars

\* C6: a breaker check made with a non-empty queue while the breaker is open and
\* its cooldown has not elapsed aborts the run at once: no page is created, no
\* item leaves the queue, no attempt is made, and an aborted run makes no
\* further step.
C6_AbortBeforeAnyPage ==
    [][ \A j \in Jobs :
          /\ (CheckStep(j) /\ cb.isOpen /\ now - cb.lastFailure < resetTimeout) =>
               /\ Aborted(j)'
               /\ pc'[j] = "done"
               /\ task'[j].status = "failed"
               /\ <<queue[j], item[j], page[j], failures[j], succeeded[j], screenshotKeys[j]>>'
                    = <<queue[j], item[j], page[j], failures[j], succeeded[j], screenshotKeys[j]>>
          /\ (Aborted(j) /\ Aborted(j)') =>
               /\ pc'[j] = "done"
               /\ <<queue[j], item[j], page[j]>>' = <<queue[j], item[j], page[j]>>
      ]_vars

\* Six attempts of a run failed in a row with no success, the sixth tripped the
\* breaker, and the seventh dequeue raised the abort.
C6_Witness ==
    \E j \in Jobs :
      /\ Aborted(j)
      /\ FailedAttempts(j) = failureThreshold + 1
      /\ streak = failureThreshold + 1
      /\ succeeded[j] = {}
      /\ queue[j] /= <<>>
      /\ page[j] /= "open"

\* C7: an attempt whose per-item store fails does not requeue its item, and the
\* job ends with status failed.
C7_StoreFaultFailsJob ==
    [][ \A j \in Jobs :
          faults'[j]["store"] = faults[j]["store"] + 1 =>
            /\ queue'[j] = queue[j]
            /\ pc'[j] = "done"
            /\ task'[j].status = "failed"
      ]_vars

\* C8: when a GetObject fails while the archive is assembled, the job ends with
\* status failed, no s3Key is written and nothing is uploaded; an archive that
\* is uploaded holds every stored object of the job.
C8_NoPartialArchive ==
    \A j \in Jobs :
      /\ faults[j]["zipget"] > 0 =>
           /\ pc[j] = "done"
           /\ task[j].status = "failed"
           /\ task[j].s3Key = <<>>
           /\ uploaded[j] = <<>>
      /\ \A i \in 1..Len(uploaded[j]) : uploaded[j][i].entries = screenshotKeys[j]

\* The archive assembly failed on a GetObject after 4 per-item stores.
C8_Witness ==
    \E j \in Jobs :
      /\ faults[j]["zipget"] > 0
      /\ Len(screenshotKeys[j]) = 4
      /\ Cardinality(succeeded[j]) = 4
      /\ Len(archive[j]) < 4

\* C9: a run in which some URL failed on every attempt and no dequeue was
\* blocked by the breaker ends with status completed, completed equal to the
\* number of URLs that succeeded, urlsCount equal to the number of validated
\* URLs, and one archive entry per succeeded URL.
C9_PartialSuccessCompletes ==
    \A j \in Jobs :
      ( /\ pc[j] = "done"
        /\ ~Aborted(j)
        /\ \E id \in DOMAIN failures[j] : failures[j][id] = MAX_ATTEMPTS ) =>
        /\ task[j].status = "completed"
        /\ task[j].urlsCount = <<Len(urls[j])>>
        /\ task[j].completed = <<Cardinality(succeeded[j])>>
        /\ Len(uploaded[j]) = 1
        /\ Len(uploaded[j][1].entries) = Cardinality(succeeded[j])

\* The run of 5 URLs in which items 2 and 4 failed on each of their 3 attempts
\* and the others succeeded first try: 3 entries, completed 3, urlsCount 5.
C9_Witness ==
    \E j \in Jobs :
      /\ pc[j] = "done"
      /\ failures[j] = <<0, MAX_ATTEMPTS, 0, MAX_ATTEMPTS, 0>>
      /\ succeeded[j] = {1, 3, 5}
      /\ task[j].status = "completed"
      /\ task[j].completed = <<3>>
      /\ task[j].urlsCount = <<5>>
      /\ Len(uploaded[j]) = 1
      /\ Len(uploaded[j][1].entries) = 3

\* C10: an item that has been requeued k times carries the timeout
\* initialTimeout * timeoutMultiplier^k, in the queue and when it is dequeued
\* for its (k+1)-th navigation.
C10_TimeoutBackoff ==
    \A j \in Jobs : \A it \in InHand(j) :
      /\ it.attempts = failures[j][it.id]
      /\ it.timeout = INITIAL_TIMEOUT * Pow(TIMEOUT_MULTIPLIER, failures[j][it.id])

\* An item requeued twice is dequeued for its third navigation with timeout
\* 120000, while another item requeued twice waits in the queue.
C10_Witness ==
    \E j \in Jobs :
      /\ pc[j] = "nav"
      /\ failures[j][item[j][1].id] = 2
      /\ item[j][1].timeout = 120000
      /\ \E a \in Range(queue[j]) : failures[j][a.id] = 2 /\ a.timeout = 120000

\* C11: a job the breaker aborted ends with status failed and no archive key,
\* whatever was captured and stored before; no archive is assembled or
\* uploaded for it.
C11_AbortFailsJob ==
    \A j \in Jobs :
      Aborted(j) =>
        /\ pc[j] = "done"
        /\ task[j].status = "failed"
        /\ task[j].s3Key = <<>>
        /\ archive[j] = <<>>
        /\ uploaded[j] = <<>>

\* A run was aborted after one of its items had succeeded and was stored.
C11_Witness ==
    \E j \in Jobs :
      /\ Aborted(j)
      /\ succeeded[j] /= {}
      /\ screenshotKeys[j] /= <<>>
      /\ task[j].completed /= <<>>

\* C12: an attempt that fails with a per-item fault (navigation timeout, error
\* status, fatal session fault) is followed by the next loop head, and a run
\* leaves the loop with a fault only on a storage fault or the breaker abort.
C12_PerItemFaultStaysInLoop ==
    [][ \A j \in Jobs :
          /\ ( /\ pc[j] \in {"loop", "nav"}
               /\ FailedAttempts(j)' = FailedAttempts(j) + 1
               /\ faults'[j]["store"] = faults[j]["store"]
               /\ faults'[j]["progress"] = faults[j]["progress"] ) => pc'[j] = "loop"
          /\ (pc[j] \in {"loop", "nav"} /\ pc'[j] = "done") =>
               (Aborted(j)' \/ faults'[j]["store"] > faults[j]["store"])
      ]_vars

\* C13: with two jobs running at once each has its own breaker: recording an
\* attempt outcome of one job leaves the failure count the other job reads
\* unchanged, and a job's dequeue is blocked only after more than 5 failures
\* of its own.
C13_OwnBreaker ==
    [][ \A j \in Jobs :
          /\ \A k \in Jobs \ {j} :
               ( /\ pc[j] \in {"loop", "nav"}
                 /\ pc[k] \in {"loop", "nav"}
                 /\ \/ FailedAttempts(k)' /= FailedAttempts(k)
                    \/ succeeded'[k] /= succeeded[k] )
                 => cb'.failureCount = cb.failureCount
          /\ (CheckStep(j) /\ Aborted(j)') => FailedAttempts(j) > failureThreshold
      ]_vars

\* C14: every run starts with the breaker closed and its failure count at
\* zero, so that only failures of the run itself can open the breaker in it or
\* block one of its dequeues.
C14_FreshBreakerPerRun ==
    [][ \A j \in Jobs :
          (pc[j] \in {"idle", "done"} /\ pc'[j] = "launch") =>
            /\ ~cb'.isOpen
            /\ cb'.failureCount = 0
      ]_vars

\* C15: a job that has ended is either completed with the key of a stored
\* archive that holds an entry of every item that succeeded, or failed with no
\* archive key.
C15_TwoTerminalStates ==
    \A j \in Jobs :
      pc[j] = "done" =>
        \/ /\ task[j].status = "completed"
           /\ task[j].s3Key /= <<>>
           /\ \E i \in 1..Len(uploaded[j]) :
                /\ task[j].s3Key = <<uploaded[j][i].key>>
                /\ uploaded[j][i].entries = screenshotKeys[j]
           /\ \A id \in succeeded[j] : \E i \in 1..Len(keyItem[j]) : keyItem[j][i] = id
        \/ /\ task[j].status = "failed"
           /\ task[j].s3Key = <<>>

\* Items dropped by handleError after their last attempt failed.
Abandoned(j) == {id \in DOMAIN failures[j] : failures[j][id] >= MAX_ATTEMPTS}

\* C16: once the queue of a run exists, no item is in it twice or both in it
\* and being attempted, and the items queued or being attempted, those that
\* succeeded and those abandoned add up to the validated URLs of the run.
C16_ItemsConserved ==
    \A j \in Jobs :
      browser[j] /= "undefined" =>
        /\ \A a, b \in 1..Len(queue[j]) : a /= b => queue[j][a].id /= queue[j][b].id
        /\ \A a \in 1..Len(queue[j]) : \A it \in Range(item[j]) : queue[j][a].id /= it.id
        /\ Len(queue[j]) + Len(item[j]) + Cardinality(succeeded[j]) + Cardinality(Abandoned(j))
             = Len(urls[j])

\* In the middle of a run: one item is being attempted, another waits in the
\* queue, one has succeeded and one was abandoned.
C16_Witness ==
    \E j \in Jobs :
      /\ pc[j] = "nav"
      /\ queue[j] /= <<>>
      /\ succeeded[j] /= {}
      /\ Abandoned(j) /= {}

\* C17: during a run the completed count of the job record never decreases,
\* and when createScreenshots returns it equals the number of items that
\* succeeded.
C17_CompletedCount ==
    [][ \A j \in Jobs :
          /\ (pc[j] \notin {"idle", "done"} /\ task[j].completed /= <<>>) =>
               /\ task'[j].completed /= <<>>
               /\ task'[j].completed[1] >= task[j].completed[1]
          /\ (pc[j] = "loop" /\ pc'[j] = "zip") =>
               task'[j].completed = <<Cardinality(succeeded'[j])>>
      ]_vars

\* C18: the keys of the artifacts a job has stored are pairwise different, and
\* the index component of the i-th of them is i.
C18_KeysUnique ==
    \A j \in Jobs :
      /\ \A i \in 1..Len(screenshotKeys[j]) : screenshotKeys[j][i][2] = i
      /\ \A a, b \in 1..Len(screenshotKeys[j]) :
           a /= b => screenshotKeys[j][a] /= screenshotKeys[j][b]

\* Two artifacts of one job with the same hostname, stored in the same
\* millisecond.
C18_Witness ==
    \E j \in Jobs :
      /\ Len(screenshotKeys[j]) >= 2
      /\ screenshotKeys[j][1][3] = screenshotKeys[j][2][3]
      /\ screenshotKeys[j][1][4] = screenshotKeys[j][2][4]
      /\ keyItem[j][1] /= keyItem[j][2]

\* C19: a job never has more than one browser live: not at any step, and not
\* inside restartBrowser, which closes the old browser before it launches the
\* new one.
C19_OneSession ==
    \A j \in Jobs :
      /\ sessions[j].live <= 1
      /\ sessions[j].peak <= 1
      /\ browser[j] = "live" <=> sessions[j].live = 1

\* The browser of a run has just been recycled after a fatal fault and the
\* loop goes on with the new one.
C19_Witness ==
    \E j \in Jobs :
      /\ sessions[j].recycled
      /\ sessions[j].live = 1
      /\ sessions[j].peak = 1
      /\ browser[j] = "live"
      /\ pc[j] = "loop"
      /\ queue[j] /= <<>>

C22_SuccessKeepsOpen ==
    [][ \A j \in Jobs :
          /\ (cb.isOpen /\ pc[j] = "nav" /\ succeeded'[j] /= succeeded[j]) =>
               /\ cb'.failureCount = 0
               /\ cb'.isOpen
               /\ cb'.lastFailure = cb.lastFailure
          /\ ( /\ CheckStep(j)
               /\ cb.isOpen
               /\ cb.failureCount = 0
               /\ now - cb.lastFailure < resetTimeout ) =>
               /\ Aborted(j)'
               /\ cb' = cb
      ]_vars

\* An item of the run succeeded while the breaker was open, and the check
\* before the next dequeue, inside the cooldown, aborted the run.
C22_Witness ==
    \E j \in Jobs :
      /\ Aborted(j)
      /\ succeeded[j] /= {}
      /\ FailedAttempts(j) = 0
      /\ cb.isOpen
      /\ cb.failureCount = 0
      /\ tripTime = <<cb.lastFailure>>
      /\ abortedAt[j][1] - cb.lastFailure < resetTimeout

\* C23: every failed attempt raises the breaker's failure count by exactly one
\* (from zero when the check that let the attempt through has just closed the
\* breaker), whether the item is requeued or abandoned and whether or not the
\* fault is fatal.
C23_FailureCountsOnce ==
    [][ \A j \in Jobs :
          FailedAttempts(j)' = FailedAttempts(j) + 1 =>
            cb'.failureCount =
              (IF CheckStep(j) /\ cb.isOpen THEN 0 ELSE cb.failureCount) + 1
      ]_vars

\* The third attempt of an item failed with a fatal fault: the item was
\* abandoned, the browser recycled, and the count went from 2 to 3.
C23_Witness ==
    \E j \in Jobs :
      /\ pc[j] = "loop"
      /\ sessions[j].recycled
      /\ Abandoned(j) /= {}
      /\ FailedAttempts(j) = MAX_ATTEMPTS
      /\ succeeded[j] = {}
      /\ cb.failureCount = MAX_ATTEMPTS
      /\ streak = MAX_ATTEMPTS

\* C24: when the catch block has handled an error whose message contains
\* 'Protocol error', 'Session closed', 'Navigation failed' or 'Target closed',
\* the loop goes on to its next dequeue with a browser launched in that catch
\* block after the old one was closed; after an error with any other message
\* it goes on with the browser it had.
C24_FatalRecycles ==
    \A j \in Jobs :
      (pc[j] = "loop" /\ lastError[j] /= <<>>) =>
        LET fatal == \E p \in {"Protocol error", "Session closed",
                                "Navigation failed", "Target closed"} :
                       p \in Range(lastError[j][1])
        IN
        /\ fatal <=> sessions[j].recycled
        /\ browser[j] = "live"
        /\ sessions[j].live = 1

\* An attempt failed with 'Navigation failed because browser has
\* disconnected', its item was requeued, and the loop is about to dequeue the
\* next item with the relaunched browser.
C24_Witness ==
    \E j \in Jobs :
      /\ pc[j] = "loop"
      /\ lastError[j] = <<MsgNavFailed>>
      /\ sessions[j].recycled
      /\ browser[j] = "live"
      /\ Len(queue[j]) >= 2
      /\ failures[j][queue[j][Len(queue[j])].id] = 1

\* C25: once createScreenshots has been left (the queue drained, the breaker
\* aborted the run, or an error escaped: a failed first launch or a failed
\* relaunch) no browser of the run is live: every browser launched in the run
\* has been closed.
C25_NoSessionLeft ==
    \A j \in Jobs :
      pc[j] \in {"zip", "upload", "cleanup", "done"} =>
        /\ sessions[j].live = 0
        /\ browser[j] /= "live"

\* A run ended by a relaunch that failed after a fatal fault: its one browser
\* had been launched and is closed.
C25_Witness ==
    \E j \in Jobs :
      /\ pc[j] = "done"
      /\ faults[j]["launch"] = 1
      /\ lastError[j] /= <<>>
      /\ sessions[j].peak = 1
      /\ sessions[j].live = 0
      /\ browser[j] = "closed"
      /\ task[j].status = "failed"

\* C26: a job has at most one item in hand and that only during its attempt,
\* at most one page open, and at every loop head (where the breaker is
\* checked and the next item dequeued) and after the loop no page open: the
\* page of the attempt before was closed whatever its outcome.
C26_OnePageAtATime ==
    \A j \in Jobs :
      /\ Len(item[j]) <= 1
      /\ item[j] /= <<>> <=> pc[j] = "nav"
      /\ sessions[j].pages <= 1
      /\ pc[j] = "nav" => page[j] = "open" /\ sessions[j].pages = 1
      /\ pc[j] /= "nav" => page[j] /= "open" /\ sessions[j].pages = 0

\* An attempt that had opened its page timed out, its item was requeued and
\* the page closed; the loop is at its next breaker check.
C26_Witness ==
    \E j \in Jobs :
      /\ pc[j] = "loop"
      /\ lastError[j] = <<MsgTimeout>>
      /\ page[j] = "closed"
      /\ sessions[j].pages = 0
      /\ queue[j] /= <<>>

\* C27: the queue is in the order in which its items will be attempted, and
\* that order is by attempts already made, then by position in the input: an
\* item that failed and was requeued stands behind every item that was in the
\* queue when it failed, items not yet attempted stand in input order before
\* every requeued item, and the item being attempted was the head.
C27_RequeueToTail ==
    \A j \in Jobs :
      LET Before(x, y) ==
            \/ x.attempts < y.attempts
            \/ x.attempts = y.attempts /\ x.id < y.id
      IN
      /\ \A a, b \in 1..Len(queue[j]) : a < b => Before(queue[j][a], queue[j][b])
      /\ \A it \in Range(item[j]) : \A q \in Range(queue[j]) : Before(it, q)

\* Item 1 failed and stands at the tail behind item 3, which has not been
\* attempted yet, while item 2 has its first attempt.
C27_Witness ==
    \E j \in Jobs :
      /\ pc[j] = "nav"
      /\ item[j][1].id = 2
      /\ item[j][1].attempts = 0
      /\ Len(queue[j]) = 2
      /\ queue[j][1].id = 3
      /\ queue[j][1].attempts = 0
      /\ queue[j][2].id = 1
      /\ queue[j][2].attempts = 1

C29_OnlyValidUrlsQueued ==
    [][ \A j \in Jobs :
          /\ (pc[j] \in {"idle", "done"} /\ pc'[j] = "launch") =>
               \A raw \in Seqs(RawStrings, quota) :
                 processFileOf(j, raw) =>
                   LET valid == {i \in 1..Len(raw) : raw[i] /= BadUrl} IN
                   /\ Len(urls'[j]) = Cardinality(valid)
                   /\ \A i \in 1..Len(urls'[j]) : urls'[j][i] /= BadUrl
                   /\ task'[j].urlsCount = <<Cardinality(valid)>>
                   /\ DOMAIN failures'[j] = 1..Cardinality(valid)
                   /\ cb' = cb
          /\ \A it \in InHand(j)' :
               /\ it.url /= BadUrl
               /\ validateUrl(it.url)
               /\ it.id \in 1..Len(urls'[j])
               /\ it.url = urls'[j][it.id]
          /\ succeeded'[j] \subseteq 1..Len(urls'[j])
          /\ Len(queue'[j]) <= Len(urls'[j])
      ]_vars

\* The first upload held two cell texts, one of them malformed: urlsCount is
\* 1 and the run completed with one item attempted, with no failure recorded.
C29_Witness ==
    /\ pc[1] = "done"
    /\ pc[2] = "idle"
    /\ quota = DownloadUrls - 2
    /\ task[1].urlsCount = <<1>>
    /\ task[1].status = "completed"
    /\ succeeded[1] = {1}
    /\ FailedAttempts(1) = 0
    /\ cb.failureCount = 0

C31_PolitenessDelay ==
    [][ \A j \in Jobs :
          /\ (pc[j] = "nav" /\ succeeded'[j] /= succeeded[j]) =>
                /\ pc'[j] = "delay"
                /\ Len(screenshotKeys'[j]) = Len(screenshotKeys[j]) + 1
                /\ task'[j].completed = <<Len(screenshotKeys'[j])>>
                /\ cb'.failureCount = 0
                /\ queue'[j] = queue[j]
                /\ waited'[j] = <<>>
          /\ (pc[j] = "delay" /\ pc'[j] /= "delay") =>
                /\ pc'[j] = "loop"
                /\ Len(waited'[j]) = 1
                /\ BASE_DELAY <= waited'[j][1]
                /\ waited'[j][1] < BASE_DELAY + JITTER
                /\ <<cb, queue, screenshotKeys, task>>' = <<cb, queue, screenshotKeys, task>>
          /\ pc[j] = "delay" =>
                /\ cb.failureCount = 0
                /\ task[j].completed = <<Len(screenshotKeys[j])>>
          /\ (pc[j] = "loop" /\ pc'[j] = "nav" /\ succeeded[j] /= {} /\ lastError[j] = <<>>) =>
                waited[j] /= <<>>
      ]_vars

\* The longest delay drawn has been waited after a capture, another item is
\* still queued and the breaker has not been checked for it yet.
C31_Witness ==
    \E j \in Jobs :
      /\ pc[j] = "loop"
      /\ waited[j] = <<BASE_DELAY + ((RandomScale - 1) * JITTER) \div RandomScale>>
      /\ queue[j] /= <<>>
      /\ Len(screenshotKeys[j]) = 1

\* Attempts of job j's run started so far: those that failed, those that
\* succeeded and the one under way.
AttemptsStarted(j) ==
    FailedAttempts(j) + Cardinality(succeeded[j]) + (IF pc[j] = "nav" THEN 1 ELSE 0)

\* C32: a run of N URLs never starts more than N * MAX_ATTEMPTS attempts, and
\* when every awaited call returns its loop is left, with the queue drained
\* or by the abort, whatever the attempts' outcomes are.
C32_LoopTerminates ==
    /\ [](\A j \in Jobs : AttemptsStarted(j) <= Len(urls[j]) * MAX_ATTEMPTS)
    /\ \A j \in Jobs : (pc[j] \in {"loop", "nav"}) ~> (pc[j] \in {"zip", "done"})

\* A run of two URLs has drained its queue with every attempt of both items
\* failed: 2 * MAX_ATTEMPTS attempts.
C32_Witness ==
    \E j \in Jobs :
      /\ pc[j] = "zip"
      /\ Len(urls[j]) = 2
      /\ AttemptsStarted(j) = 2 * MAX_ATTEMPTS
      /\ queue[j] = <<>>

\* C33: when every awaited call returns and the status writes succeed, a job
\* record in status processing does not stay there: the job gets to completed
\* or failed, whatever faults occur in the launch, the captures, the progress
\* writes, the archive or its upload.
C33_ReachesTerminalStatus ==
    /\ [](\A j \in Jobs : (task[j].status = "processing") = (pc[j] \notin {"idle", "done"}))
    /\ \A j \in Jobs :
          (task[j].status = "processing") ~> (task[j].status \in {"completed", "failed"})

\* A job has ended failed on a fault of the archive step, after a capture
\* that succeeded.
C33_Witness ==
    \E j \in Jobs :
      /\ pc[j] = "done"
      /\ task[j].status = "failed"
      /\ faults[j]["zipget"] + faults[j]["zipput"] = 1
      /\ succeeded[j] /= {}

\* C34: the completed count written to a job's record is at most its
\* urlsCount in every reachable state.
C34_CompletedAtMostUrlsCount ==
    \A j \in Jobs :
      (task[j].completed /= <<>> /\ task[j].urlsCount /= <<>>) =>
        task[j].completed[1] <= task[j].urlsCount[1]

\* C35: once a job's record holds status completed and an archive key, no
\* later step of that job changes its status.
C35_CompletedIsFinal ==
    [][ \A j \in Jobs :
          ( /\ task[j].status = "completed"
            /\ task[j].s3Key /= <<>>
            /\ pc'[j] /= "launch" ) =>
            task'[j].status = "completed"
      ]_vars

\* C36: the abort is thrown only at a breaker check, made with the queue not
\* empty and the breaker open; a loop head that finds the queue empty
\* returns to processFile with no check, the breaker untouched and open if it
\* was; the failure that opens the breaker stamps it and never ends the run
\* by itself; a job ends failed only by the abort or by a launch, archive or
\* upload fault; and nothing but the checks and attempts of a run changes
\* the breaker, which stays open, with its failure count above the
\* threshold and its trip time, for the next run that checks it.
C36_AbortOnlyAtCheck ==
    [][ /\ \A j \in Jobs :
             /\ (abortedAt[j] = <<>> /\ abortedAt'[j] /= <<>>) =>
                   /\ pc[j] = "loop"
                   /\ queue[j] /= <<>>
                   /\ cb.isOpen
             /\ (pc[j] = "loop" /\ queue[j] = <<>> /\ pc'[j] /= "loop") =>
                   /\ pc'[j] = "zip"
                   /\ cb' = cb
                   /\ abortedAt'[j] = <<>>
                   /\ task'[j] = task[j]
             /\ (pc[j] \in {"loop", "nav"} /\ ~cb.isOpen /\ cb'.isOpen) =>
                   /\ cb'.lastFailure = now
                   /\ abortedAt'[j] = <<>>
                   /\ pc'[j] = "loop" \/ faults'[j]["launch"] > faults[j]["launch"]
             /\ (pc'[j] = "done" /\ task'[j].status = "failed") =>
                   \/ abortedAt'[j] /= <<>>
                   \/ faults'[j]["launch"] + faults'[j]["zipget"] + faults'[j]["zipput"] > 0
        /\ cb' /= cb => \E j \in Jobs : pc[j] \in {"loop", "nav"}
        /\ cb'.isOpen =>
              /\ cb'.failureCount > failureThreshold
              /\ tripTime' = <<cb'.lastFailure>>
      ]_vars

\* Both URLs of a run failed at every attempt; the sixth failure opened the
\* breaker and emptied the queue; the run was not aborted, its (empty)
\* archive is uploaded and its job completed, and the breaker is still open
\* with a cell text left for the next run.
C36_Witness ==
    \E j \in Jobs :
      /\ pc[j] = "done"
      /\ task[j].status = "completed"
      /\ abortedAt[j] = <<>>
      /\ failures[j] = <<MAX_ATTEMPTS, MAX_ATTEMPTS>>
      /\ cb.isOpen
      /\ cb.failureCount = failureThreshold + 1
      /\ tripTime = <<cb.lastFailure>>
      /\ quota > 0

\* C37: a per-item key a job stores while another job is in flight is never
\* one of the keys that other job has stored.
C37_KeysOfJobsDisjoint ==
    [][ \A j, k \in Jobs :
          ( /\ j /= k
            /\ pc[j] = "nav"
            /\ pc[k] \notin {"idle", "done"}
            /\ Len(screenshotKeys'[j]) = Len(screenshotKeys[j]) + 1 ) =>
            screenshotKeys'[j][Len(screenshotKeys'[j])] \notin Range(screenshotKeys[k])
      ]_vars

\* C38: a task has at most one interval timer at a time, and once its timer
\* has been cleared and none is set, the entry shown for it has a status
\* other than processing.
C38_OneTimerAndFinalStatus ==
    \A j \in Jobs :
      /\ Cardinality(timers[j]) <= 1
      /\ (cleared[j] /\ timers[j] = {}) => tasks[j] /= <<"processing">>

====
